---- MODULE Spec2Model ----
(***************************************************************************)
(* Model of src/services/videoProcessor.ts: one run of processVideo on a   *)
(* video element.  Time is counted in integer ticks; a file's duration is  *)
(* a multiple of segments * samplesPerSegment ticks, so that the divisions *)
(* of lines 94 and 108 are exact.  The decoded picture at a tick is        *)
(* summarised by the sharpness score calculateLaplacianVariance gives it:  *)
(* a non-negative number, or NaN when the frame has no interior pixel      *)
(* (count = 0 at lines 37 and 44).                                         *)
(***************************************************************************)
EXTENDS Integers, Sequences, FiniteSets, TLC

\* ---- bounds on the inputs ------------------------------------------------
MaxDurationUnits == 2   \* durations are 0..MaxDurationUnits times 120 ticks
MaxMul == 2             \* picture content: score(t) = (mul * t + off) % mod
MaxOff == 1
MaxMod == 13

MaxNameLen == 3         \* file names: up to MaxNameLen characters of NameChars
MaxSize == 20           \* file sizes 0..MaxSize
MaxLastModified == 11   \* modification times 0..MaxLastModified

MaxWidth == 4           \* frames handed to the scorer: 1..MaxWidth wide,
MaxHeight == 3          \* 1..MaxHeight high

MaxFrames == 2          \* analyzeFrames is handed 0..MaxFrames frames

MaxBatches == 2         \* videos the user uploads in all

\* ---- program constants ---------------------------------------------------
segments == 5
samplesPerSegment == 24
topK == 3

Files ==
  [ mul : 1..MaxMul, off : 0..MaxOff, mod : 1..MaxMod,
    duration : { k * segments * samplesPerSegment : k \in 0..MaxDurationUnits },
    dims : {"zero", "tiny", "normal"} ]  \* 0 wide/high; under 3 wide/high; larger

VARIABLES
  file,           \* the File handed to processVideo and what it decodes to
  pc,             \* where the run is: "loading", "scoring", "capturing",
                  \* "finished", "noctx", "threw", "loadfailed"
  promise,        \* the promise returned to the caller
  returned,       \* frames the promise was resolved with
  urlLive,        \* objectUrl created and not yet revoked
  errored,        \* the video element has fired 'error'
  seeking,        \* seeks requested on the element and not yet completed
  position,       \* playback position whose picture drawImage would read
  s, i, j,        \* loop counters
  time,           \* the local `time` of the current iteration
  segmentScores, top3Times, finalResults,
  reports,        \* values passed to onProgress, in order
  removed         \* removeBatch has dropped the run's batch from the list

\* state of the pure functions and of analyzeFrames, each exercised by a
\* specification of its own
VARIABLES
  idFile, videoId,                  \* generateVideoId: argument and result
  idHash,                           \* its local `hash` when the loop has ended
  imageData, variance,              \* calculateLaplacianVariance: same
  frames, responses, analyzedFrames \* analyzeFrames: argument, service, result

\* state of the App component around startProcessing
VARIABLES
  batches,        \* the `batches` state: the list the sidebar shows
  invocations,    \* calls of startProcessing: queued snapshot and loop position
  handed,         \* per batch id, how often it was passed to processVideo
  created         \* number of batches created so far

runVars == << file, pc, promise, returned, urlLive, errored, seeking, position,
              s, i, j, time, segmentScores, top3Times, finalResults, reports,
              removed >>
idVars  == << idFile, videoId, idHash >>
lapVars == << imageData, variance >>
aiVars  == << frames, responses, analyzedFrames >>
appVars == << batches, invocations, handed, created >>

vars == << runVars, idVars, lapVars, aiVars, appVars >>

\* ---- pure helpers --------------------------------------------------------

\* the value 0 / 0 of lines 37 and 44; every other score is >= 0
NaN == -1

\* a > b on scores, as the language compares numbers: false when either is NaN
Gt(a, b) == a # NaN /\ b # NaN /\ a > b

\* score of the picture decoded at tick t (calculateLaplacianVariance of it)
FrameScore(f, t) ==
  IF f.dims = "tiny" THEN NaN ELSE ((f.mul * t) + f.off) % f.mod

\* the comparator (a, b) => b.score - a.score as sort reads it: a NaN
\* result counts as +0
CompareFn(a, b) ==
  IF a.score = NaN \/ b.score = NaN THEN 0 ELSE b.score - a.score

segmentDuration(duration) == duration \div segments

\* variant: the segment offset s * samplesPerSegment left out of currentSample
ProgressWithinSegment(currentSample) ==
  ((currentSample % samplesPerSegment) * 80) \div samplesPerSegment

\* variant: phase 1 scaled to 100 instead of 80
ProgressFullScale(currentSample) ==
  (currentSample * 100) \div (segments * samplesPerSegment)

Progress(currentSample) ==
  (currentSample * 80) \div (segments * samplesPerSegment)

SampleTime(duration, sv, iv) ==
  (sv * segmentDuration(duration))
    + (iv * (segmentDuration(duration) \div samplesPerSegment))

\* variant: comparator a.score - b.score (ascending)
RECURSIVE InsertAsc(_, _)
InsertAsc(x, sorted) ==
  IF sorted = << >> THEN << x >>
  ELSE IF CompareFn(x, Head(sorted)) <= 0
       THEN << Head(sorted) >> \o InsertAsc(x, Tail(sorted))
       ELSE << x >> \o sorted

\* variant: an equal-scored later sample is placed before the earlier one
RECURSIVE InsertDescLaterFirst(_, _)
InsertDescLaterFirst(x, sorted) ==
  IF sorted = << >> THEN << x >>
  ELSE IF CompareFn(Head(sorted), x) < 0
       THEN << Head(sorted) >> \o InsertDescLaterFirst(x, Tail(sorted))
       ELSE << x >> \o sorted

\* stable insertion of x into a list sorted by descending score
RECURSIVE InsertDesc(_, _)
InsertDesc(x, sorted) ==
  IF sorted = << >> THEN << x >>
  ELSE IF CompareFn(Head(sorted), x) <= 0
       THEN << Head(sorted) >> \o InsertDesc(x, Tail(sorted))
       ELSE << x >> \o sorted

\* variant: the sort left out, samples stay in temporal order
Unsorted(xs) == xs

\* Array.prototype.sort((a, b) => b.score - a.score): stable, descending
RECURSIVE SortByScoreDesc(_)
SortByScoreDesc(xs) ==
  IF xs = << >> THEN << >>
  ELSE InsertDesc(xs[Len(xs)], SortByScoreDesc(SubSeq(xs, 1, Len(xs) - 1)))

\* variant: .slice(0, 2)
Slice2(xs) == SubSeq(xs, 1, IF Len(xs) < 2 THEN Len(xs) ELSE 2)

\* .slice(0, 3)
Slice3(xs) == SubSeq(xs, 1, IF Len(xs) < topK THEN Len(xs) ELSE topK)

\* variant: rankId counted from the end of the selection
KeyframeRankFromEnd(sv, jv, t, sc, picture) ==
  [ id |-> << sv + 1, jv + 1 >>, dataUrl |-> picture, timestamp |-> t,
    score |-> sc, partId |-> sv + 1, rankId |-> topK - jv ]

\* variant: the sample's score is not carried into the keyframe
KeyframeUnscored(sv, jv, t, sc, picture) ==
  [ id |-> << sv + 1, jv + 1 >>, dataUrl |-> picture, timestamp |-> t,
    score |-> 0, partId |-> sv + 1, rankId |-> jv + 1 ]

Keyframe(sv, jv, t, sc, picture) ==
  [ id |-> << sv + 1, jv + 1 >>, dataUrl |-> picture, timestamp |-> t,
    score |-> sc, partId |-> sv + 1, rankId |-> jv + 1 ]

\* variant: the seek is requested again without awaiting the first request
StartSeekTwice(q, t) == Append(Append(q, t), t)

\* video.currentTime = t: one more seek is outstanding on the element
StartSeek(q, t) == Append(q, t)

\* the element completes the k-th outstanding seek
DropSeek(q, k) == SubSeq(q, 1, k - 1) \o SubSeq(q, k + 1, Len(q))

\* variant: s < segments - 1
MoreSegmentsShort(sv) == sv < segments - 1

\* loop condition of `for (let s = 0; s < segments; s++)`, asked after s++
MoreSegments(sv) == sv < segments

Reject(p) == IF p = "pending" THEN "rejected" ELSE p
Resolve(p) == IF p = "pending" THEN "resolved" ELSE p

\* ---- generateVideoId ---------------------------------------------------
\* Strings are sequences of character codes.  A 32-bit integer is kept as
\* two 16-bit halves [hi, lo] of its residue modulo 2^32, negative when
\* hi >= 32768.

NameChars == { 46, 97 }     \* "." and "a"

Names == UNION { [ 1..n -> NameChars ] : n \in 0..MaxNameLen }

IdFiles == [ name : Names, size : 0..MaxSize, lastModified : 0..MaxLastModified ]

\* number to string, as string concatenation converts a non-negative integer
RECURSIVE Decimal(_)
Decimal(n) ==
  IF n < 10 THEN << 48 + n >> ELSE Decimal(n \div 10) \o << 48 + (n % 10) >>

\* variant: hash << 4
ShiftLeft4(h) ==
  [ hi |-> ((h.hi * 16) + ((h.lo * 16) \div 65536)) % 65536,
    lo |-> (h.lo * 16) % 65536 ]

\* hash << 5
ShiftLeft5(h) ==
  [ hi |-> ((h.hi * 32) + ((h.lo * 32) \div 65536)) % 65536,
    lo |-> (h.lo * 32) % 65536 ]

\* a - b, wrapped to 32 bits by the following `hash |= 0`
Minus32(a, b) ==
  [ hi |-> (a.hi - b.hi - (IF a.lo < b.lo THEN 1 ELSE 0)) % 65536,
    lo |-> (a.lo - b.lo) % 65536 ]

\* a + c for a character code c, wrapped likewise
Plus32(a, c) ==
  [ hi |-> (a.hi + ((a.lo + c) \div 65536)) % 65536,
    lo |-> (a.lo + c) % 65536 ]

\* the loop of lines 52-56 over the characters of str
RECURSIVE HashOf(_)
HashOf(str) ==
  IF str = << >> THEN [ hi |-> 0, lo |-> 0 ]
  ELSE LET hash == HashOf(SubSeq(str, 1, Len(str) - 1))
       IN  Plus32(Minus32(ShiftLeft5(hash), hash), str[Len(str)])

\* Math.abs of the signed value: a magnitude in 0..2^31
Abs32(h) ==
  IF h.hi < 32768 THEN h
  ELSE [ hi |-> (65535 - h.hi + (IF h.lo = 0 THEN 1 ELSE 0)) % 65536,
         lo |-> (65536 - h.lo) % 65536 ]

HexChar(d) ==
  << "0", "1", "2", "3", "4", "5", "6", "7",
     "8", "9", "a", "b", "c", "d", "e", "f" >>[d + 1]

\* hexadecimal digits of n, no leading zero
RECURSIVE HexOf(_)
HexOf(n) ==
  IF n < 16 THEN << HexChar(n) >> ELSE HexOf(n \div 16) \o << HexChar(n % 16) >>

\* the four hexadecimal digits of a 16-bit half below the leading half
Hex4(n) ==
  << HexChar(n \div 4096), HexChar((n \div 256) % 16),
     HexChar((n \div 16) % 16), HexChar(n % 16) >>

\* .toString(16)
ToString16(m) == IF m.hi = 0 THEN HexOf(m.lo) ELSE HexOf(m.hi) \o Hex4(m.lo)

\* .substring(0, 4)
Substring04(str) == SubSeq(str, 1, IF Len(str) < 4 THEN Len(str) ELSE 4)

UpperChar(c) ==
  CASE c = "a" -> "A" [] c = "b" -> "B" [] c = "c" -> "C"
    [] c = "d" -> "D" [] c = "e" -> "E" [] c = "f" -> "F" [] OTHER -> c

\* .toUpperCase()
ToUpperCase(str) == [ n \in 1..Len(str) |-> UpperChar(str[n]) ]

\* file.name + file.size + file.lastModified
StrOf(f) == f.name \o Decimal(f.size) \o Decimal(f.lastModified)

generateVideoId(f) ==
  LET str == f.name \o Decimal(f.size) \o Decimal(f.lastModified)
  IN  ToUpperCase(Substring04(ToString16(Abs32(HashOf(str)))))

\* ---- calculateLaplacianVariance -----------------------------------------
\* A pixel is << R, G, B >> (alpha is not read).  Luminance is kept in
\* thousandths, 299 R + 587 G + 114 B, and the returned quotient as a
\* fraction num / den; Float32 rounding is not modelled.

Colours == { << 0, 0, 0 >>, << 0, 1, 0 >> }

Images ==
  UNION { [ width : { w }, height : { h }, data : [ 1..(w * h) -> Colours ] ] :
            w \in 1..MaxWidth, h \in 1..MaxHeight }

RECURSIVE SumOver(_, _)
SumOver(S, f) ==
  IF S = { } THEN 0
  ELSE LET x == CHOOSE y \in S : TRUE IN f[x] + SumOver(S \ { x }, f)

\* lines 14-16; position idx of the array is pixel idx + 1 of data
Grayscale(img) ==
  [ idx \in 0..((img.width * img.height) - 1) |->
      (299 * img.data[idx + 1][1]) + (587 * img.data[idx + 1][2])
        + (114 * img.data[idx + 1][3]) ]

\* the idx visited by the loops of lines 23-24
InteriorIdx(img) ==
  { (y * img.width) + x : x \in 1..(img.width - 2), y \in 1..(img.height - 2) }

\* lines 20-35: zero outside the interior
Laplacian(img) ==
  LET grayscale == Grayscale(img) IN
  [ idx \in 0..((img.width * img.height) - 1) |->
      IF idx \in InteriorIdx(img)
      THEN (-4 * grayscale[idx]) + grayscale[idx - 1] + grayscale[idx + 1]
             + grayscale[idx - img.width] + grayscale[idx + img.width]
      ELSE 0 ]

\* a / b for a >= 0: 0 / 0 is NaN, a / 0 with a > 0 is Infinity
Quotient(a, b) ==
  IF b = 0 THEN [ nan |-> a = 0, inf |-> a > 0, num |-> a, den |-> 0 ]
  ELSE [ nan |-> FALSE, inf |-> FALSE, num |-> a, den |-> b ]

\* lines 37-44.  With count > 0 and mean = sum / count,
\* (laplacian[i] - mean)^2 = (count * laplacian[i] - sum)^2 / count^2, so
\* varianceSum / count = squares / count^3.  With count = 0 no laplacian[i]
\* is non-zero, varianceSum stays 0 and the result is 0 / 0.
calculateLaplacianVariance(img) ==
  LET laplacian == Laplacian(img)
      count     == Cardinality(InteriorIdx(img))
      sum       == SumOver(InteriorIdx(img), laplacian)
      nonzero   == { idx \in DOMAIN laplacian : laplacian[idx] # 0 }
      squares   == [ idx \in nonzero |->
                       ((count * laplacian[idx]) - sum)
                         * ((count * laplacian[idx]) - sum) ]
  IN  Quotient(SumOver(nonzero, squares), count * count * count)

\* ---- analyzeFrames --------------------------------------------------------
\* A label or description is [kind, n]: "undefined", the caller's own
\* ("caller"), the service's ("service"), the literal "Jewelry showcase"
\* ("showcase") or the template `Frame ${n}` ("Frame").

Undefined == [ kind |-> "undefined", n |-> 0 ]
Falsy(v) == v.kind \in { "undefined", "empty" }

\* frames as a caller may hand them over: idx tells them apart
FrameInputs(idx) ==
  [ id : { idx },
    label : { Undefined, [ kind |-> "caller", n |-> idx ] },
    aiDescription : { Undefined, [ kind |-> "caller", n |-> idx ] } ]

FrameLists ==
  UNION { { fs \in [ 1..n -> UNION { FrameInputs(k) : k \in 1..n } ] :
              \A k \in 1..n : fs[k].id = k } : n \in 0..MaxFrames }

\* what one generateContent call can come to: it throws (or its text does not
\* parse), or it yields JSON whose label and description are a non-empty
\* string, an empty string or missing
Outcomes ==
  [ state : { "threw" }, label : { Undefined }, description : { Undefined } ]
    \cup
  [ state : { "answered" },
    label : { Undefined, [ kind |-> "empty", n |-> 0 ], [ kind |-> "service", n |-> 0 ] },
    description : { Undefined, [ kind |-> "service", n |-> 0 ] } ]

Pending == [ state |-> "pending", label |-> Undefined, description |-> Undefined ]

\* `Frame ${index + 1}`
FrameLabel(index) == [ kind |-> "Frame", n |-> index + 1 ]

\* result.x || fallback
OrElse(v, fallback) == IF Falsy(v) THEN fallback ELSE v

\* variant: the catch block returns the frame as it came
CatchResultUntouched(frame, index) == frame

\* the catch block, line 49
CatchResult(frame, index) == [ frame EXCEPT !.label = FrameLabel(index) ]

\* lines 41-46
TryResult(frame, index, result) ==
  [ frame EXCEPT !.label = OrElse(result.label, FrameLabel(index)),
                 !.aiDescription =
                   OrElse(result.description, [ kind |-> "showcase", n |-> 0 ]) ]

\* value of the async callback of frames.map for one frame
MapCallback(frame, index, outcome) ==
  IF outcome.state = "threw" THEN CatchResult(frame, index)
  ELSE TryResult(frame, index, outcome)

\* ---- App: the batch list and startProcessing ------------------------------
\* A batch is [id, status, progress, frames, metadata, rawFile]; frames is the
\* length of its frame list, metadata "undefined" or "stored".  Ids are
\* 1, 2, ... in order of creation.

ProgressValues == { 0, 79 }   \* values a run reports before its last report

\* an entry of newBatches in handleFileSelect, lines 35-43
NewBatch(id) ==
  [ id |-> id, status |-> "QUEUED", progress |-> 0, frames |-> 0,
    metadata |-> "undefined", rawFile |-> TRUE ]

\* { ...b, ...updates }
Spread(b, updates) ==
  [ f \in DOMAIN b |-> IF f \in DOMAIN updates THEN updates[f] ELSE b[f] ]

\* the list setBatches(prev => prev.map(...)) of updateBatch leaves
updateBatch(prev, id, updates) ==
  [ n \in 1..Len(prev) |->
      IF prev[n].id = id THEN Spread(prev[n], updates) ELSE prev[n] ]

\* lines 80-84; extracted.map keeps the number of frames
Completed(extracted) ==
  [ status |-> "COMPLETED", frames |-> extracted, metadata |-> "stored" ]

\* batches.filter(b => b.status === ProcessingStatus.QUEUED), as ids
RECURSIVE QueuedIds(_)
QueuedIds(bs) ==
  IF bs = << >> THEN << >>
  ELSE (IF Head(bs).status = "QUEUED" THEN << Head(bs).id >> ELSE << >>)
         \o QueuedIds(Tail(bs))

\* the rawFile the loop reads: that of the snapshot taken at line 61, where
\* every batch has the file handleFileSelect gave it
HasRawFile(id) == NewBatch(id).rawFile

\* lines 64-72 for the batch at position m of the invocation's snapshot: mark
\* it PROCESSING, then call processVideo and await, or throw at line 67 and
\* mark it ERROR at line 87
RECURSIVE RunLoop(_, _, _, _)
RunLoop(bs, hd, inv, m) ==
  IF m > Len(inv.queued)
  THEN [ batches |-> bs, handed |-> hd,
         inv |-> [ inv EXCEPT !.at = m, !.state = "returned" ] ]
  ELSE LET id     == inv.queued[m]
           marked == updateBatch(bs, id, [ status |-> "PROCESSING" ])
       IN  IF HasRawFile(id)
           THEN [ batches |-> marked,
                  handed |-> [ hd EXCEPT ![id] = @ + 1 ],
                  inv |-> [ inv EXCEPT !.at = m, !.state = "awaiting" ] ]
           ELSE RunLoop(updateBatch(marked, id, [ status |-> "ERROR" ]), hd,
                        [ inv EXCEPT !.outcomes = Append(@, "rejected") ], m + 1)

\* ---- the run -------------------------------------------------------------

\* nothing handed to generateVideoId yet
IdIdle ==
  /\ idFile = [ name |-> << >>, size |-> 0, lastModified |-> 0 ]
  /\ videoId = << >>
  /\ idHash = [ hi |-> 0, lo |-> 0 ]

\* nothing handed to calculateLaplacianVariance yet
LapIdle ==
  /\ imageData = [ width |-> 1, height |-> 1, data |-> << 0 >> ]
  /\ variance = [ done |-> FALSE, nan |-> FALSE, num |-> 0, den |-> 1 ]

\* the App has no batches
AppIdle ==
  /\ batches = << >>
  /\ invocations = << >>
  /\ handed = [ id \in 1..MaxBatches |-> 0 ]
  /\ created = 0

\* analyzeFrames not called
AiIdle ==
  /\ frames = << >>
  /\ responses = << >>
  /\ analyzedFrames = [ settled |-> "pending", value |-> << >> ]

\* processVideo has run lines 64-74: element created, src set, promise pending
RunStart ==
  /\ pc = "loading"
  /\ promise = "pending"
  /\ returned = << >>
  /\ urlLive = TRUE
  /\ errored = FALSE
  /\ seeking = << >>
  /\ position = 0
  /\ s = 0 /\ i = 0 /\ j = 0
  /\ time = 0
  /\ segmentScores = << >>
  /\ top3Times = << >>
  /\ finalResults = << >>
  /\ reports = << >>
  /\ removed = FALSE

Init ==
  /\ file \in Files
  /\ RunStart
  /\ IdIdle /\ LapIdle /\ AiIdle /\ AppIdle

\* video.onloadedmetadata up to its first await (or its early return)
LoadedMetadata ==
  /\ pc = "loading"
  /\ \E ctxAvailable \in BOOLEAN :
       IF ~ctxAvailable
       THEN /\ promise' = Reject(promise)
            /\ pc' = "noctx"
            /\ UNCHANGED << reports, time, seeking >>
       ELSE /\ reports' = Append(reports, Progress(0))
            /\ time' = SampleTime(file.duration, 0, 0)
            /\ seeking' = StartSeek(seeking, SampleTime(file.duration, 0, 0))
            /\ pc' = "scoring"
            /\ UNCHANGED promise
  /\ UNCHANGED << file, returned, urlLive, errored, position, s, i, j,
                  segmentScores, top3Times, finalResults, removed >>
  /\ UNCHANGED << idVars, lapVars, aiVars, appVars >>

\* 'seeked' during phase 1: the continuation runs to the next await
ScoringSeeked ==
  /\ pc = "scoring"
  /\ \E k \in 1..Len(seeking) :
       LET pos    == seeking[k]
           rest   == DropSeek(seeking, k)
           scored == Append(segmentScores,
                            [ time |-> time, score |-> FrameScore(file, pos) ])
           sorted == SortByScoreDesc(scored)
           top    == Slice3(sorted)
       IN
       /\ position' = pos
       /\ IF file.dims = "zero"
          THEN \* getImageData on an empty canvas throws inside the handler
               /\ pc' = "threw"
               /\ seeking' = rest
               /\ UNCHANGED << promise, returned, urlLive, s, i, j, time,
                               segmentScores, top3Times, finalResults, reports >>
          ELSE IF i + 1 < samplesPerSegment
          THEN /\ segmentScores' = scored
               /\ i' = i + 1
               /\ reports' = Append(reports, Progress((s * samplesPerSegment) + i + 1))
               /\ time' = SampleTime(file.duration, s, i + 1)
               /\ seeking' = StartSeek(rest, SampleTime(file.duration, s, i + 1))
               /\ UNCHANGED << pc, promise, returned, urlLive, s, j,
                               top3Times, finalResults >>
          ELSE /\ segmentScores' = sorted
               /\ top3Times' = top
               /\ i' = i + 1
               /\ j' = 0
               /\ time' = top[1].time
               /\ seeking' = StartSeek(rest, top[1].time)
               /\ pc' = "capturing"
               /\ UNCHANGED << promise, returned, urlLive, s,
                               finalResults, reports >>
  /\ UNCHANGED << file, errored, removed >>
  /\ UNCHANGED << idVars, lapVars, aiVars, appVars >>

\* 'seeked' during phase 2: the continuation runs to the next await or to the end
CaptureSeeked ==
  /\ pc = "capturing"
  /\ \E k \in 1..Len(seeking) :
       LET pos     == seeking[k]
           rest    == DropSeek(seeking, k)
           results == Append(finalResults,
                             Keyframe(s, j, time, top3Times[j + 1].score, pos))
       IN
       /\ position' = pos
       /\ finalResults' = results
       /\ IF j + 1 < Len(top3Times)
          THEN /\ j' = j + 1
               /\ time' = top3Times[j + 2].time
               /\ seeking' = StartSeek(rest, top3Times[j + 2].time)
               /\ UNCHANGED << pc, promise, returned, urlLive, s, i,
                               segmentScores, reports >>
          ELSE IF MoreSegments(s + 1)
          THEN /\ j' = j + 1
               /\ s' = s + 1
               /\ i' = 0
               /\ segmentScores' = << >>
               /\ reports' = Append(reports, Progress((s + 1) * samplesPerSegment))
               /\ time' = SampleTime(file.duration, s + 1, 0)
               /\ seeking' = StartSeek(rest, SampleTime(file.duration, s + 1, 0))
               /\ pc' = "scoring"
               /\ UNCHANGED << promise, returned, urlLive >>
          ELSE /\ j' = j + 1
               /\ s' = s + 1
               /\ reports' = Append(reports, 100)
               /\ urlLive' = FALSE
               /\ promise' = Resolve(promise)
               /\ returned' = IF promise = "pending" THEN results ELSE returned
               /\ seeking' = rest
               /\ pc' = "finished"
               /\ UNCHANGED << i, time, segmentScores >>
  /\ UNCHANGED << file, errored, top3Times, removed >>
  /\ UNCHANGED << idVars, lapVars, aiVars, appVars >>

\* variant: onerror releases the URL but does not reject
VideoErrorSilent ==
  /\ pc \in {"loading", "scoring", "capturing"}
  /\ ~errored
  /\ errored' = TRUE
  /\ urlLive' = FALSE
  /\ pc' = IF pc = "loading" THEN "loadfailed" ELSE pc
  /\ UNCHANGED << file, promise, returned, seeking, position, s, i, j, time,
                  segmentScores, top3Times, finalResults, reports, removed >>
  /\ UNCHANGED << idVars, lapVars, aiVars, appVars >>

\* video.onerror
VideoError ==
  /\ pc \in {"loading", "scoring", "capturing"}
  /\ ~errored
  /\ errored' = TRUE
  /\ urlLive' = FALSE
  /\ promise' = Reject(promise)
  /\ pc' = IF pc = "loading" THEN "loadfailed" ELSE pc
  /\ UNCHANGED << file, returned, seeking, position, s, i, j, time,
                  segmentScores, top3Times, finalResults, reports, removed >>
  /\ UNCHANGED << idVars, lapVars, aiVars, appVars >>

\* a fixed source for the specifications that do not run processVideo
IdleFile == [ mul |-> 1, off |-> 0, mod |-> 1, duration |-> 0, dims |-> "normal" ]

InitVideoId ==
  /\ file = IdleFile
  /\ RunStart
  /\ idFile \in IdFiles
  /\ videoId = << >>
  /\ idHash = [ hi |-> 0, lo |-> 0 ]
  /\ LapIdle /\ AiIdle /\ AppIdle

\* const videoId = generateVideoId(videoFile)
ComputeVideoId ==
  /\ videoId = << >>
  /\ videoId' = generateVideoId(idFile)
  /\ idHash' = HashOf(StrOf(idFile))
  /\ UNCHANGED << idFile, runVars, lapVars, aiVars, appVars >>

NextVideoId == ComputeVideoId

SpecVideoId == InitVideoId /\ [][NextVideoId]_vars

InitLaplacian ==
  /\ file = IdleFile
  /\ RunStart
  /\ IdIdle /\ AiIdle /\ AppIdle
  /\ imageData \in Images
  /\ variance = [ done |-> FALSE, nan |-> FALSE, num |-> 0, den |-> 1 ]

\* const score = calculateLaplacianVariance(imageData)
ComputeVariance ==
  /\ ~variance.done
  /\ LET v == calculateLaplacianVariance(imageData)
     IN  variance' = [ done |-> TRUE, nan |-> v.nan, num |-> v.num, den |-> v.den ]
  /\ UNCHANGED << imageData, runVars, idVars, aiVars, appVars >>

NextLaplacian == ComputeVariance

SpecLaplacian == InitLaplacian /\ [][NextLaplacian]_vars

\* analyzeFrames(frames) has run to its await: every generateContent call is
\* under way
InitAnalyze ==
  /\ file = IdleFile
  /\ RunStart
  /\ IdIdle /\ LapIdle /\ AppIdle
  /\ frames \in FrameLists
  /\ responses = [ n \in 1..Len(frames) |-> Pending ]
  /\ analyzedFrames = [ settled |-> "pending", value |-> << >> ]

\* one generateContent call settles, in any order among the frames
ServiceResponds ==
  /\ analyzedFrames.settled = "pending"
  /\ \E n \in 1..Len(frames) : \E outcome \in Outcomes :
       /\ responses[n] = Pending
       /\ responses' = [ responses EXCEPT ![n] = outcome ]
  /\ UNCHANGED << frames, analyzedFrames, runVars, idVars, lapVars, appVars >>

\* Promise.all settles once every callback has: results in index order
AnalyzeReturns ==
  /\ analyzedFrames.settled = "pending"
  /\ \A n \in 1..Len(frames) : responses[n] # Pending
  /\ analyzedFrames' =
       [ settled |-> "resolved",
         value |-> [ n \in 1..Len(frames) |->
                       MapCallback(frames[n], n - 1, responses[n]) ] ]
  /\ UNCHANGED << frames, responses, runVars, idVars, lapVars, appVars >>

NextAnalyze == ServiceResponds \/ AnalyzeReturns

SpecAnalyze == InitAnalyze /\ [][NextAnalyze]_vars

\* removeBatch(id) for the batch whose run is in progress: the batch leaves
\* the list; nothing of the run (element, handlers, promise) is touched
RemoveBatch ==
  /\ pc \in {"loading", "scoring", "capturing"}
  /\ ~removed
  /\ removed' = TRUE
  /\ UNCHANGED << file, pc, promise, returned, urlLive, errored, seeking,
                  position, s, i, j, time, segmentScores, top3Times,
                  finalResults, reports >>
  /\ UNCHANGED << idVars, lapVars, aiVars, appVars >>

InitApp ==
  /\ file = IdleFile
  /\ RunStart
  /\ IdIdle /\ LapIdle /\ AiIdle
  /\ AppIdle

\* handleFileSelect with n files chosen
HandleFileSelect ==
  /\ \E n \in 1..MaxBatches :
       /\ created + n <= MaxBatches
       /\ batches' = batches \o [ k \in 1..n |-> NewBatch(created + k) ]
       /\ created' = created + n
  /\ UNCHANGED << invocations, handed >>
  /\ UNCHANGED << runVars, idVars, lapVars, aiVars >>

\* a click on the start button, enabled while some batch is QUEUED:
\* startProcessing up to its first await
StartProcessing ==
  /\ \E n \in 1..Len(batches) : batches[n].status = "QUEUED"
  /\ LET inv  == [ queued |-> QueuedIds(batches), at |-> 1,
                   state |-> "awaiting", outcomes |-> << >> ]
         step == RunLoop(batches, handed, inv, 1)
     IN  /\ batches' = step.batches
         /\ handed' = step.handed
         /\ invocations' = Append(invocations, step.inv)
  /\ UNCHANGED created
  /\ UNCHANGED << runVars, idVars, lapVars, aiVars >>

\* the callback of line 71, invoked by a run that has not resolved: the one
\* awaited, or an earlier one that was rejected and whose handler still runs
OnProgress ==
  /\ \E k \in 1..Len(invocations) : \E m \in 1..Len(invocations[k].queued) :
     \E p \in ProgressValues :
       /\ \/ (invocations[k].state = "awaiting" /\ m = invocations[k].at)
          \/ (m <= Len(invocations[k].outcomes)
                /\ invocations[k].outcomes[m] = "rejected")
       /\ batches' = updateBatch(batches, invocations[k].queued[m],
                                [ progress |-> p ])
       /\ batches' # batches
  /\ UNCHANGED << invocations, handed, created >>
  /\ UNCHANGED << runVars, idVars, lapVars, aiVars >>

\* the processVideo call awaited by invocation k settles and the invocation
\* runs on to its next await or to its end.  A resolving run reports 100
\* (line 157 of videoProcessor.ts) just before it resolves with its frames.
Settles(k) ==
  /\ k \in 1..Len(invocations)
  /\ invocations[k].state = "awaiting"
  /\ \E outcome \in { "resolved", "rejected" } :
       LET inv     == invocations[k]
           id      == inv.queued[inv.at]
           settled == IF outcome = "resolved"
                      THEN updateBatch(
                             updateBatch(batches, id, [ progress |-> 100 ]),
                             id, Completed(segments * topK))
                      ELSE updateBatch(batches, id, [ status |-> "ERROR" ])
           step    == RunLoop(settled, handed,
                              [ inv EXCEPT !.outcomes = Append(@, outcome) ],
                              inv.at + 1)
       IN  /\ batches' = step.batches
           /\ handed' = step.handed
           /\ invocations' = [ invocations EXCEPT ![k] = step.inv ]
  /\ UNCHANGED created
  /\ UNCHANGED << runVars, idVars, lapVars, aiVars >>

\* removeBatch(id) for a listed batch, which the user made active by a click
RemoveListed ==
  /\ \E n \in 1..Len(batches) :
       batches' = SubSeq(batches, 1, n - 1) \o SubSeq(batches, n + 1, Len(batches))
  /\ UNCHANGED << invocations, handed, created >>
  /\ UNCHANGED << runVars, idVars, lapVars, aiVars >>

NextApp ==
  HandleFileSelect \/ StartProcessing \/ OnProgress
    \/ (\E k \in 1..MaxBatches : Settles(k)) \/ RemoveListed

SpecApp == InitApp /\ [][NextApp]_vars

\* every processVideo call settles
FairnessApp == \A k \in 1..MaxBatches : WF_vars(Settles(k))

SpecAppLive == InitApp /\ [][NextApp]_vars /\ FairnessApp

Next ==
  LoadedMetadata \/ ScoringSeeked \/ CaptureSeeked \/ VideoError \/ RemoveBatch

Spec == Init /\ [][Next]_vars

\* WF_vars(ScoringSeeked), written out: ScoringSeeked is enabled exactly when a
\* seek is outstanding during scoring, and it is the one step that then
\* changes i or pc
ScoringSeekCompletes ==
  \/ []<>~(pc = "scoring" /\ seeking # << >>)
  \/ []<><< pc = "scoring" /\ (i' # i \/ pc' # pc) >>_vars

\* the element does what it is asked: the metadata load comes to an end (or
\* fails with an error, which disables LoadedMetadata) and each requested
\* seek completes
Fairness ==
  /\ WF_vars(LoadedMetadata)
  /\ ScoringSeekCompletes
  /\ WF_vars(CaptureSeeked)

\* whether a run settles does not depend on what the pictures show: the fair
\* specification takes every duration and size with two picture contents
InitLive ==
  /\ Init
  /\ file.mul = 1 /\ file.off = 0 /\ file.mod <= 2

SpecLive == InitLive /\ [][Next]_vars /\ Fairness

TypeOK ==
  /\ file \in Files
  /\ pc \in {"loading", "scoring", "capturing", "finished", "noctx", "threw", "loadfailed"}
  /\ promise \in {"pending", "resolved", "rejected"}
  /\ urlLive \in BOOLEAN /\ errored \in BOOLEAN
  /\ s \in 0..segments /\ i \in 0..samplesPerSegment /\ j \in 0..topK
  /\ Len(segmentScores) <= samplesPerSegment
  /\ Len(finalResults) <= segments * topK

\* ---- properties ----------------------------------------------------------

Indices(xs) == 1..Len(xs)

\* scoring samples whose score has been pushed so far in the run
SamplesScored ==
  IF pc = "finished" THEN segments * samplesPerSegment
  ELSE (s * samplesPerSegment) + Len(segmentScores)

\* keyframes of segment p in a list
OfPart(xs, p) == { n \in Indices(xs) : xs[n].partId = p }

\* C1: a run that resolves returns exactly 15 keyframes, and every pair
\* (partId, rankId) with partId in 1..5 and rankId in 1..3 occurs exactly once.
C1_FifteenKeyframesEachPairOnce ==
  promise = "resolved" =>
    /\ Len(returned) = 15
    /\ \A p \in 1..5 : \A r \in 1..3 :
         Cardinality({ n \in Indices(returned) :
                         returned[n].partId = p /\ returned[n].rankId = r }) = 1

C1_Witness ==
  /\ promise = "resolved"
  /\ file.duration > 0
  /\ Len(returned) = 15

\* C2: what the caller gets is either nothing (pending or rejected promise) or
\* a list covering all 5 segments and all 3 ranks of each; a rejected promise
\* carries no keyframes and a partial list is never delivered.
C2_AllOrNothing ==
  /\ promise # "resolved" => returned = << >>
  /\ promise = "resolved" =>
       /\ { returned[n].partId : n \in Indices(returned) } = 1..segments
       /\ \A p \in 1..segments :
            { returned[n].rankId : n \in OfPart(returned, p) } = 1..topK

C2_Witness ==
  /\ promise = "rejected"
  /\ Len(finalResults) > 0
  /\ Len(finalResults) < segments * topK
  /\ returned = << >>

\* C3: once the run has ended (handler returned or threw, load failed, or the
\* promise is settled) the object URL has been revoked.
C3_UrlReleasedOnEveryExit ==
  (pc \in {"finished", "noctx", "threw", "loadfailed"} \/ promise # "pending")
    => ~urlLive

\* C4: the reported progress values are integers in 0..100, never decrease,
\* number at least one per scoring sample, contain 100 at most once and only
\* as the last report, and a resolved run ends with exactly one report of 100.
C4_ProgressSequence ==
  /\ \A n \in Indices(reports) : reports[n] \in 0..100
  /\ \A n \in Indices(reports) : n > 1 => reports[n - 1] <= reports[n]
  /\ Len(reports) >= SamplesScored
  /\ \A n \in Indices(reports) : reports[n] = 100 => n = Len(reports)
  /\ promise = "resolved" =>
       /\ reports # << >>
       /\ reports[Len(reports)] = 100
       /\ Cardinality({ n \in Indices(reports) : reports[n] = 100 }) = 1

C4_Witness ==
  /\ promise = "resolved"
  /\ Len(reports) = (segments * samplesPerSegment) + 1
  /\ reports[Len(reports)] = 100

C6_ZeroDurationFails ==
  file.duration = 0 =>
    /\ promise # "resolved"
    /\ returned = << >>
    /\ reports = << >>

C8_OneSeekInFlight ==
  /\ Len(seeking) <= 1
  /\ pc \in {"scoring", "capturing"} => seeking = << time >>
  /\ \A n \in Indices(segmentScores) :
       segmentScores[n].score = FrameScore(file, segmentScores[n].time)
  /\ \A n \in Indices(finalResults) :
       finalResults[n].dataUrl = finalResults[n].timestamp

C8_Witness ==
  /\ pc = "capturing"
  /\ seeking = << time >>
  /\ time > 0
  /\ position # time
  /\ Len(finalResults) > 0

\* C9: in a resolved run, within each segment the score does not increase as
\* rankId grows (no keyframe scores higher than one of lower rankId), and the
\* rank-1 keyframe has the segment's maximum score (none scores higher).
C9_ScoresNonIncreasingInRank ==
  promise = "resolved" =>
    \A a \in Indices(returned) : \A b \in Indices(returned) :
      (returned[a].partId = returned[b].partId) =>
        /\ returned[a].rankId < returned[b].rankId
             => ~Gt(returned[b].score, returned[a].score)
        /\ returned[a].rankId = 1
             => ~Gt(returned[b].score, returned[a].score)

C9_Witness ==
  /\ promise = "resolved"
  /\ \E a \in Indices(returned) : \E b \in Indices(returned) :
       \E c \in Indices(returned) :
         /\ returned[a].partId = returned[b].partId
         /\ returned[b].partId = returned[c].partId
         /\ returned[a].rankId = 1 /\ returned[b].rankId = 2
         /\ returned[c].rankId = 3
         /\ Gt(returned[a].score, returned[b].score)
         /\ Gt(returned[b].score, returned[c].score)

\* tick and score of the iv-th scoring sample of segment sv (both 0-based)
SampleOf(sv, iv) ==
  [ time  |-> SampleTime(file.duration, sv, iv),
    score |-> FrameScore(file, SampleTime(file.duration, sv, iv)) ]

\* C10: the keyframes of a segment are 3 of its 24 scored samples, and every
\* sample of the segment that is not among them scores no more than each of
\* them (it does not score higher than any of them).
C10_KeyframesAreTopThree ==
  promise = "resolved" =>
    \A p \in 1..segments :
      LET keys  == { returned[n] : n \in OfPart(returned, p) }
          taken == { k.timestamp : k \in keys }
      IN
      /\ \A k \in keys :
           \E iv \in 0..(samplesPerSegment - 1) :
             /\ k.timestamp = SampleOf(p - 1, iv).time
             /\ k.score = SampleOf(p - 1, iv).score
      /\ file.duration > 0 => Cardinality(taken) = topK
      /\ \A iv \in 0..(samplesPerSegment - 1) :
           SampleOf(p - 1, iv).time \notin taken =>
             \A k \in keys : ~Gt(SampleOf(p - 1, iv).score, k.score)

C10_Witness ==
  /\ promise = "resolved"
  /\ file.duration > 0
  /\ \E n \in OfPart(returned, 1) :
       /\ returned[n].rankId = 3
       /\ Gt(returned[n].score, 0)
       /\ returned[n].timestamp > SampleOf(0, 3).time
       /\ \E iv \in 0..(samplesPerSegment - 1) :
            /\ SampleOf(0, iv).time \notin
                 { returned[m].timestamp : m \in OfPart(returned, 1) }
            /\ SampleOf(0, iv).score = returned[n].score

\* C11: of two samples of a segment with identical scores the earlier one gets
\* the lower rankId, and when only one of them is among the keyframes it is
\* the earlier one.
C11_TiesKeepTemporalOrder ==
  promise = "resolved" =>
    \A p \in 1..segments :
      LET keys  == { returned[n] : n \in OfPart(returned, p) }
          taken == { k.timestamp : k \in keys }
      IN
      /\ \A a \in keys : \A b \in keys :
           (a.score = b.score /\ a.timestamp < b.timestamp)
             => a.rankId < b.rankId
      /\ \A k \in keys : \A iv \in 0..(samplesPerSegment - 1) :
           ( /\ SampleOf(p - 1, iv).time \notin taken
             /\ SampleOf(p - 1, iv).score = k.score )
             => k.timestamp < SampleOf(p - 1, iv).time

C11_Witness ==
  /\ promise = "resolved"
  /\ file.duration > 0
  /\ \E a \in OfPart(returned, 1) : \E b \in OfPart(returned, 1) :
       \E c \in OfPart(returned, 1) :
         /\ returned[a].rankId = 1 /\ returned[b].rankId = 2
         /\ returned[c].rankId = 3
         /\ returned[a].score = returned[b].score
         /\ returned[a].timestamp < returned[b].timestamp
         /\ Gt(returned[b].score, returned[c].score)
         /\ \E iv \in 0..(samplesPerSegment - 1) :
              /\ SampleOf(0, iv).score = returned[c].score
              /\ SampleOf(0, iv).time > returned[c].timestamp

\* C15: a source of zero width or height is rejected by the metadata handler
\* itself: once the handler has run the promise is rejected, nothing was
\* reported and no seek was requested.
C15_ZeroDimensionsRejectedInOpening ==
  (file.dims = "zero" /\ pc # "loading") =>
    /\ promise = "rejected"
    /\ reports = << >>
    /\ seeking = << >>

\* C16: a progress value of 80 or more is reported only when all 120 scoring
\* samples of the run have been completed.
C16_NoEightyBeforeScoringDone ==
  \A n \in Indices(reports) :
    reports[n] >= 80 => SamplesScored = segments * samplesPerSegment

C16_Witness ==
  /\ pc = "scoring"
  /\ SamplesScored = (segments * samplesPerSegment) - 1
  /\ reports[Len(reports)] = 79

\* C17: the returned list is ordered by partId, and by rankId within a partId.
C17_SegmentMajorRankMinor ==
  promise = "resolved" =>
    \A n \in Indices(returned) : \A m \in Indices(returned) :
      n < m =>
        /\ returned[n].partId <= returned[m].partId
        /\ returned[n].partId = returned[m].partId
             => returned[n].rankId < returned[m].rankId

C17_Witness ==
  /\ promise = "resolved"
  /\ returned[1].partId = 1 /\ returned[1].rankId = 1
  /\ returned[3].partId = 1 /\ returned[3].rankId = 3
  /\ returned[4].partId = 2 /\ returned[4].rankId = 1

\* C18: once the run's batch has been removed the object URL is released, and
\* no continuation of the run requests a further seek.
C18_AbortReleasesAndStops ==
  /\ [](removed => ~urlLive)
  /\ [][ removed =>
           ~( /\ << segmentScores, finalResults >>' # << segmentScores, finalResults >>
              /\ seeking' # << >> ) ]_vars

\* C19: every time the run seeks to lies in [0, duration), and a scoring seek
\* of segment s lies in [s * segmentDuration, (s + 1) * segmentDuration).
C19_SeekTimesInRange ==
  pc \in {"scoring", "capturing"} =>
    /\ 0 <= time /\ time < file.duration
    /\ \A n \in Indices(seeking) : 0 <= seeking[n] /\ seeking[n] < file.duration
    /\ pc = "scoring" =>
         /\ s * segmentDuration(file.duration) <= time
         /\ time < (s + 1) * segmentDuration(file.duration)

UpperHexChars ==
  { "0", "1", "2", "3", "4", "5", "6", "7", "8", "9", "A", "B", "C", "D", "E", "F" }

\* C12: the identifier generateVideoId returns for a file is the value of the
\* function at that file (the same on every call) and consists of exactly 4
\* uppercase hexadecimal characters.
C12_FourUpperHexChars ==
  videoId # << >> =>
    /\ videoId = generateVideoId(idFile)
    /\ Len(videoId) = 4
    /\ \A n \in 1..Len(videoId) : videoId[n] \in UpperHexChars

\* every pixel of the frame has the colour of the first
Flat(img) == \A k \in DOMAIN img.data : img.data[k] = img.data[1]

\* C13: for a frame without interior pixels (width < 3 or height < 3) the
\* score is the number 0.
C13_NoInteriorGivesZero ==
  (variance.done /\ (imageData.width < 3 \/ imageData.height < 3)) =>
    /\ ~variance.nan
    /\ variance.den > 0
    /\ variance.num = 0

\* C14: the score is a non-negative number for every frame, and exactly 0 for
\* a uniformly flat frame that has an interior pixel.
C14_NonNegativeAndFlatIsZero ==
  variance.done =>
    /\ ~variance.nan /\ variance.den > 0 /\ variance.num >= 0
    /\ (Flat(imageData) /\ imageData.width >= 3 /\ imageData.height >= 3)
         => variance.num = 0

\* C20 as stated: a frame whose service call failed is returned with label and
\* aiDescription as the caller passed them; no failure rejects the call or
\* changes the number or order of the frames.
C20_FailedFrameUnchanged ==
  /\ analyzedFrames.settled # "rejected"
  /\ analyzedFrames.settled = "resolved" =>
       /\ Len(analyzedFrames.value) = Len(frames)
       /\ \A n \in 1..Len(frames) :
            /\ analyzedFrames.value[n].id = frames[n].id
            /\ responses[n].state = "threw" =>
                 /\ analyzedFrames.value[n].label = frames[n].label
                 /\ analyzedFrames.value[n].aiDescription = frames[n].aiDescription

\* C20 amended: a frame whose service call failed is returned with its
\* aiDescription as the caller passed it and its label replaced by
\* `Frame ${index + 1}`; no failure rejects the call or changes the number or
\* order of the frames.
C20_FailedFrameRelabelled ==
  /\ analyzedFrames.settled # "rejected"
  /\ analyzedFrames.settled = "resolved" =>
       /\ Len(analyzedFrames.value) = Len(frames)
       /\ \A n \in 1..Len(frames) :
            /\ analyzedFrames.value[n].id = frames[n].id
            /\ responses[n].state = "threw" =>
                 /\ analyzedFrames.value[n].label = [ kind |-> "Frame", n |-> n ]
                 /\ analyzedFrames.value[n].aiDescription = frames[n].aiDescription

C20_Witness ==
  /\ analyzedFrames.settled = "resolved"
  /\ Len(frames) = 2
  /\ frames[1].label.kind = "caller"
  /\ frames[1].aiDescription.kind = "caller"
  /\ responses[1].state = "threw"
  /\ responses[2].state = "answered"
  /\ analyzedFrames.value[1].label.kind = "Frame"
  /\ analyzedFrames.value[2].label.kind = "service"

\* h * 31 + c modulo 2^32, on the halves of h
Times31Plus(h, c) ==
  LET low == (h.lo * 31) + c
  IN  [ hi |-> ((h.hi * 31) + (low \div 65536)) % 65536, lo |-> low % 65536 ]

\* the polynomial hash of str, wrapped to 32 bits after every character
RECURSIVE PolyHash(_)
PolyHash(str) ==
  IF str = << >> THEN [ hi |-> 0, lo |-> 0 ]
  ELSE Times31Plus(PolyHash(SubSeq(str, 1, Len(str) - 1)), str[Len(str)])

\* C23: the integer generateVideoId folds over name + size + lastModified is
\* the polynomial hash h = h * 31 + charCode of that string, wrapped to a
\* 32-bit signed integer after every character.
C23_HashIsPolynomial31 ==
  videoId # << >> => idHash = PolyHash(StrOf(idFile))

\* a string long enough to wrap, folded to a negative 32-bit value
C23_Witness ==
  /\ videoId # << >>
  /\ Len(StrOf(idFile)) = MaxNameLen + 4
  /\ idHash.hi >= 32768
  /\ idHash = PolyHash(StrOf(idFile))

\* the descending-score selection of segment p (1-based): its 24 samples in
\* temporal order, sorted, first three kept
Selection(p) ==
  Slice3(SortByScoreDesc([ n \in 1..samplesPerSegment |-> SampleOf(p - 1, n - 1) ]))

\* C22: every keyframe is emitted during capture, for segment s and rank
\* j + 1, with the timestamp and the score of the j-th sample of the segment's
\* descending-score selection and the picture sought at that timestamp; the
\* seek outstanding during capture is the one for that timestamp; a keyframe
\* once emitted is never changed.
C22_KeyframeCarriesSelectedSample ==
  /\ [](pc = "capturing" =>
          /\ top3Times = Selection(s + 1)
          /\ seeking = << top3Times[j + 1].time >>)
  /\ [][ finalResults' # finalResults =>
           /\ pc = "capturing"
           /\ Len(finalResults') = Len(finalResults) + 1
           /\ SubSeq(finalResults', 1, Len(finalResults)) = finalResults
           /\ LET k   == finalResults'[Len(finalResults')]
                  sel == top3Times[j + 1]   \* entry j + 1 of Selection(s + 1)
              IN  /\ k.partId = s + 1 /\ k.rankId = j + 1
                  /\ k.timestamp = sel.time
                  /\ k.score = sel.score
                  /\ k.dataUrl = sel.time ]_vars

\* a rank-3 keyframe of a later segment that is not the segment's third sample
C22_Witness ==
  /\ pc = "capturing"
  /\ file.duration > 0
  /\ \E n \in Indices(finalResults) :
       /\ finalResults[n].partId = 2 /\ finalResults[n].rankId = 3
       /\ Gt(finalResults[n].score, 0)
       /\ finalResults[n].timestamp # SampleOf(1, 2).time
       /\ finalResults[n].timestamp = Selection(2)[3].time

\* C25: once the promise is rejected the progress callback is not invoked
\* again, and 100 is never among the reports of a rejected run.
C25_NoProgressAfterReject ==
  /\ [][ promise = "rejected" => reports' = reports ]_vars
  /\ [](promise = "rejected" => \A n \in Indices(reports) : reports[n] # 100)

\* C21: provided the load ends and every requested seek completes or raises a
\* video error, the promise of every run is eventually resolved or rejected.
C21_EveryRunSettles ==
  <>(promise # "pending")

\* batches of the list that are in a given status
InStatus(status) == { n \in Indices(batches) : batches[n].status = status }

\* C24: each batch is passed to processVideo at most once, and at most one
\* batch is in status PROCESSING at any time.
C24_OneRunPerBatchOneAtATime ==
  /\ \A id \in 1..MaxBatches : handed[id] <= 1
  /\ Cardinality(InStatus("PROCESSING")) <= 1

\* ids that were in the queued snapshot of some invocation
Snapshotted == UNION { { inv.queued[m] : m \in Indices(inv.queued) } :
                         inv \in { invocations[k] : k \in Indices(invocations) } }

\* batch id is listed in one of the given statuses
Listed(id, statuses) ==
  \E n \in Indices(batches) : batches[n].id = id /\ batches[n].status \in statuses

\* C26: provided every processVideo call settles, every batch that was QUEUED
\* when startProcessing was invoked reaches COMPLETED or ERROR (unless the user
\* removes it from the list); a COMPLETED batch has its full set of frames and
\* its metadata; a batch in ERROR has an empty frame list.
C26_QueueSurvivesFailure ==
  /\ \A id \in 1..MaxBatches :
       (id \in Snapshotted) ~>
         (Listed(id, { "COMPLETED", "ERROR" }) \/ ~Listed(id, { "QUEUED", "PROCESSING" }))
  /\ [](\A n \in InStatus("COMPLETED") :
          batches[n].frames = segments * topK /\ batches[n].metadata = "stored")
  /\ [](\A n \in InStatus("ERROR") : batches[n].frames = 0)

====
